---- MODULE Spec2Model ----
(***************************************************************************)
(* The ReAct loop controller of LangSwarm-Cortex (ReActAgent.chat, react,  *)
(* _parse_action, _route_action, _execute_with_timeout) together with the  *)
(* in-memory CapabilityRegistry it routes to.                              *)
(*                                                                         *)
(* A model reply is a sequence of segments, each one a piece of text that  *)
(* one of the agent's regular expressions matches as a whole (a tool       *)
(* command, a capability command, a capability-discovery request, the      *)
(* continuation marker) or plain prose that none of them matches.  Every   *)
(* other text (queries, results, return values) is a string.               *)
(*                                                                         *)
(* chat is modelled as called on the main thread of the process, where     *)
(* signal.signal is allowed.  The model collaborator (super().chat) and    *)
(* the handlers are external: a model call returns any reply, a handler    *)
(* returns a text, returns an empty text or raises.  The tool table is     *)
(* what ToolMixin.__init__ makes of the tools argument: the mapping from   *)
(* names to handlers that was passed, or a list when none or an empty one  *)
(* was.  The registry is the in-memory CapabilityRegistry with its         *)
(* embeddings.                                                             *)
(*                                                                         *)
(* The control thread is followed statement by statement through           *)
(* _execute_with_timeout, so that the alarm signal and the timer thread    *)
(* can interleave with it at every point where the watcher is armed.       *)
(*                                                                         *)
(* Four specifications:  Spec (FairSpec with fairness) is chat as a whole; *)
(* ParserSpec is one round of chat on texts that hold several commands in  *)
(* any order; RegistrySpec is the registry's own interface called in any   *)
(* order, each call recorded in op with the registry it was made on;       *)
(* RaceSpec is one thread in search_capabilities and one thread in         *)
(* register_capability or remove_capability, interleaved statement by      *)
(* statement on the same registry.                                         *)
(***************************************************************************)
EXTENDS Integers, Sequences, FiniteSets, TLC

VARIABLES
    max_iterations,         \* chat's iteration budget
    strategy,               \* "signal" when SIGALRM exists, else "timer"
    tools,                  \* self.tools: its form (dict or list) and the names it holds
    capabilities,           \* self.capabilities, in insertion order
    embeddings,             \* self.embeddings, in insertion order
    included_capabilities,  \* self.included_capabilities
    pc,                     \* position of the control thread inside chat
    i,                      \* iterations of the for loop completed
    query,                  \* chat's local variable query
    agent_reply,            \* chat's local agent_reply (Unbound before the first call)
    status,                 \* status returned by react
    result,                 \* result returned by react
    pending,                \* value _execute_with_timeout is about to return
    ret,                    \* value returned by chat
    alarm,                  \* SIGALRM alarm: "off", "armed", "fired"
    timer,                  \* self.timer: "none", "armed", "expired", "cancelled"
    modelCalls,             \* number of super().chat calls made
    handlerExecs,           \* number of handler.run calls made
    searches,               \* number of search_capabilities calls made
    modelQuery,             \* query handed to the latest model call
    hstate,                 \* how this iteration's handler run ended
    late,                   \* the watcher expired while the handler was running
    execsAtStart,           \* handlerExecs when this iteration began
    prev,                   \* outcome of the previous iteration
    allGood,                \* every iteration so far ran a handler to a non-empty result
    action_details,         \* react's local: what _parse_action returned
    op,                     \* the latest call made on the registry's own interface
    searcher,               \* a thread inside search_capabilities: its place and locals
    mutator                 \* a thread inside register_capability or remove_capability

vars == <<max_iterations, strategy, tools, capabilities, embeddings,
          included_capabilities, pc, i, query, agent_reply, status, result,
          pending, ret, alarm, timer, modelCalls, handlerExecs, searches,
          modelQuery, hstate, late, execsAtStart, prev, allGood,
          action_details, op, searcher, mutator>>

registryVars == <<capabilities, embeddings>>
configVars == <<max_iterations, strategy, tools>>
watchVars == <<alarm, timer>>
raceVars == <<searcher, mutator>>

----------------------------------------------------------------------------
(* Bounds *)

MaxIter == 3
MaxSegs == 3
MaxTopK == 2

----------------------------------------------------------------------------
(* Texts *)

Names == {"alpha"}

GoodJson == "{\"q\": \"a\"}"
BadJson == "{bad json}"

Seg(k, name, arg) == [k |-> k, name |-> name, arg |-> arg]

Marker == Seg("marker", "", "[CAN I CONTINUE?]")

\* What a reply says besides the marker: prose, or one command of the three forms.
Bodies ==
    {Seg("text", "", "I am done.")}
    \cup {Seg("tool", n, j) : n \in Names, j \in {GoodJson, BadJson}}
    \cup {Seg("capability", n, j) : n \in Names, j \in {GoodJson, BadJson}}
    \cup {Seg("request", "", "math helpers")}

\* The replies of the model collaborator: a body, alone or with the continuation
\* marker after or before it, or the marker alone.
Replies ==
    {<<b>> : b \in Bodies} \cup {<<b, Marker>> : b \in Bodies}
    \cup {<<Marker, b>> : b \in Bodies} \cup {<<Marker>>}

\* Every text of up to MaxSegs pieces, each a command of one of the three forms,
\* prose or the marker, in every order.
ParserTexts ==
    UNION {[1..n -> Bodies \cup {Marker}] : n \in 1..MaxSegs}

Unbound == << >>

\* The literal text of a segment, as the regular expressions of __init__ read it.
SegText(s) ==
    CASE s.k = "tool" -> "use tool:" \o s.name \o "|run|" \o s.arg
      [] s.k = "capability" -> "use capability:" \o s.name \o "|run|" \o s.arg
      [] s.k = "request" -> "request:capabilities|" \o s.arg
      [] OTHER -> s.arg

RECURSIVE Text(_)
Text(r) == IF r = << >> THEN "" ELSE SegText(Head(r)) \o Text(Tail(r))

\* re.search: the index of the leftmost segment the form's expression matches, 0 if none.
Search(kind, reasoning) ==
    LET hits == {n \in 1..Len(reasoning) : reasoning[n].k = kind}
    IN  IF hits = {} THEN 0 ELSE CHOOSE n \in hits : \A m \in hits : n <= m

\* A lenient decoder that takes any braced literal.
JsonDecodesAnything(j) == TRUE

\* json.loads succeeds on the literal.
JsonDecodes(j) == j = GoodJson

NoAction == [type |-> "none", name |-> "", action |-> "", arguments |-> ""]

\* The form whose match stands leftmost in the text is taken, whatever its kind.
_parse_action_leftmost(reasoning) ==
    LET hits == {n \in 1..Len(reasoning) :
                    reasoning[n].k \in {"tool", "capability", "request"}}
    IN  IF hits = {} THEN NoAction
        ELSE LET n == CHOOSE h \in hits : \A m \in hits : h <= m
                 seg == reasoning[n]
             IN  IF seg.k = "request"
                 THEN [type |-> "capabilities",
                       name |-> seg.arg \o Text(SubSeq(reasoning, n + 1, Len(reasoning))),
                       action |-> "undefined", arguments |-> "{}"]
                 ELSE IF JsonDecodes(seg.arg)
                      THEN [type |-> seg.k, name |-> seg.name,
                            action |-> "run", arguments |-> seg.arg]
                      ELSE NoAction

\* A command whose JSON does not decode is skipped and the next form is tried.
_parse_action_falls_through(reasoning) ==
    LET tool_match == Search("tool", reasoning)
        capability_match == Search("capability", reasoning)
        capability_request == Search("request", reasoning)
    IN  IF tool_match # 0 /\ JsonDecodes(reasoning[tool_match].arg) THEN
            [type |-> "tool", name |-> reasoning[tool_match].name,
             action |-> "run", arguments |-> reasoning[tool_match].arg]
        ELSE IF capability_match # 0 /\ JsonDecodes(reasoning[capability_match].arg) THEN
            [type |-> "capability", name |-> reasoning[capability_match].name,
             action |-> "run", arguments |-> reasoning[capability_match].arg]
        ELSE IF capability_request # 0 THEN
            [type |-> "capabilities",
             name |-> reasoning[capability_request].arg
                      \o Text(SubSeq(reasoning, capability_request + 1, Len(reasoning))),
             action |-> "undefined", arguments |-> "{}"]
        ELSE NoAction

_parse_action(reasoning) ==
    LET tool_match == Search("tool", reasoning)
        capability_match == Search("capability", reasoning)
        capability_request == Search("request", reasoning)
    IN  IF tool_match # 0 THEN
            IF JsonDecodes(reasoning[tool_match].arg)
            THEN [type |-> "tool", name |-> reasoning[tool_match].name,
                  action |-> "run", arguments |-> reasoning[tool_match].arg]
            ELSE NoAction
        ELSE IF capability_match # 0 THEN
            IF JsonDecodes(reasoning[capability_match].arg)
            THEN [type |-> "capability", name |-> reasoning[capability_match].name,
                  action |-> "run", arguments |-> reasoning[capability_match].arg]
            ELSE NoAction
        ELSE IF capability_request # 0 THEN
            \* group(1) is (.*): the rest of the text after the bar
            [type |-> "capabilities",
             name |-> reasoning[capability_request].arg
                      \o Text(SubSeq(reasoning, capability_request + 1, Len(reasoning))),
             action |-> "undefined", arguments |-> "{}"]
        ELSE NoAction

\* The marker's brackets left unescaped: a character class that any text matches.
asked_to_continue_unescaped(reply) == reply # << >>

asked_to_continue(reply) == Search("marker", reply) # 0

----------------------------------------------------------------------------
(* CapabilityRegistry *)

DefaultTopK == 5

NoAttr == "<no attribute>"

Capability(name, description, instruction) ==
    [name |-> name, description |-> description, instruction |-> instruction]

\* A description the embedding function raises on: None, say, where a text is due.
Unembeddable == "<not a text>"

EmbeddingRaises(text) == text = Unembeddable

\* The injected embedding function: text -> vector.
embedding_model(text) ==
    CASE text = "summarize text" -> <<1, 0>>
      [] text = "solve math" -> <<0, 1>>
      [] text = "math helpers" -> <<1, 2>>
      [] OTHER -> <<1, 1>>

Dot(a, b) == a[1] * b[1] + a[2] * b[2]
Norm2(a) == IF Dot(a, a) = 0 THEN 1 ELSE Dot(a, a)
SignedSq(x) == IF x < 0 THEN 0 - x * x ELSE x * x

\* cosine_similarity(q, a) < cosine_similarity(q, b), in exact arithmetic
CosLess(a, b, q) == SignedSq(Dot(a, q)) * Norm2(b) < SignedSq(Dot(b, q)) * Norm2(a)

Min(a, b) == IF a < b THEN a ELSE b

Keys(table) == {table[n].name : n \in 1..Len(table)}

Lookup(table, name) ==
    table[CHOOSE n \in 1..Len(table) : table[n].name = name]

None == Capability("", "", "")

\* self.capabilities.get(capability_name)
get_capability(caps, capability_name) ==
    IF capability_name \in Keys(caps) THEN Lookup(caps, capability_name) ELSE None

\* The orders in which L indices can be listed.
Perms(L) == {f \in [1..L -> 1..L] : \A a, b \in 1..L : a # b => f[a] # f[b]}

\* np.argsort(similarities)[::-1][:top_k].  The default sort is not a stable one:
\* the indices come out by descending similarity, and equal similarities in
\* whichever order the sort of the build leaves them (index order reversed where
\* it happens to be stable).  Every such order is an outcome.
ranked_indices(embs, query_embedding, top_k) ==
    LET L == Len(embs)
        descending == {f \in Perms(L) : \A p \in 1..(L - 1) :
                          ~CosLess(embs[f[p]].vec, embs[f[p + 1]].vec, query_embedding)}
    IN  {SubSeq(f, 1, Min(top_k, L)) : f \in descending}

RECURSIVE JsonItems(_)
JsonItems(items) ==
    IF items = << >> THEN ""
    ELSE "{\"name\": \"" \o Head(items).name
         \o "\", \"description\": \"" \o Head(items).description
         \o "\", \"instruction\": \"" \o Head(items).instruction \o "\"}"
         \o (IF Tail(items) = << >> THEN "" ELSE ", ")
         \o JsonItems(Tail(items))

json_dumps(items) == "[" \o JsonItems(items) \o "]"

\* The rest of search_capabilities once the ranking is made: mark the names, then
\* build the list, which raises when a descriptor has no instruction attribute.
Ranked(caps, embs, included, ranked) ==
    LET names == [p \in DOMAIN ranked |-> embs[ranked[p]].name]
        marked == included \cup {names[p] : p \in DOMAIN names}
        broken == \E p \in DOMAIN names :
                      \/ names[p] \notin Keys(caps)
                      \/ Lookup(caps, names[p]).instruction = NoAttr
    IN  IF broken THEN [raises |-> TRUE, included |-> marked, items |-> << >>]
        ELSE [raises |-> FALSE, included |-> marked,
              items |-> [p \in DOMAIN names |-> Lookup(caps, names[p])]]

\* search_capabilities: the outcomes it can have, each one what it raises or
\* returns and the discovery set it leaves.
search_capabilities(caps, embs, included, q, top_k) ==
    IF embs = << >> THEN
        \* cosine_similarity rejects the empty array
        {[raises |-> TRUE, included |-> included, items |-> << >>]}
    ELSE
        {Ranked(caps, embs, included, ranked) :
            ranked \in ranked_indices(embs, embedding_model(q), top_k)}

\* table[entry.name] = entry: a new key goes to the end, a known key keeps its place.
Put(table, entry) ==
    IF entry.name \in Keys(table)
    THEN [n \in DOMAIN table |-> IF table[n].name = entry.name THEN entry ELSE table[n]]
    ELSE Append(table, entry)

\* The oldest entry is deleted, whatever its name.
DelOldest(table, name) == IF table = << >> THEN table ELSE Tail(table)

\* del table[name]
Del(table, name) == SelectSeq(table, LAMBDA e : e.name # name)

\* The descriptor register_capability stores: the capability, under its name.
Stored(capability_name, capability) == [capability EXCEPT !.name = capability_name]

\* The two assignments of register_capability.
Registered(reg, cap) ==
    [caps |-> Put(reg.caps, cap),
     embs |-> Put(reg.embs, [name |-> cap.name, vec |-> embedding_model(cap.description)])]

EmptyRegistry == [caps |-> << >>, embs |-> << >>]

\* No call has been made on the registry yet.
NoCall ==
    [call |-> "none", capability_name |-> "", capability |-> None,
     query |-> "", top_k |-> 0, raised |-> FALSE, returned |-> << >>,
     caps |-> << >>, embs |-> << >>, included |-> {}]

\* No search is under way.
NoSearch ==
    [pc |-> "idle", names |-> << >>, embs |-> << >>, ranked |-> << >>, at |-> 0,
     broken |-> FALSE, regDuring |-> FALSE, remDuring |-> FALSE]

\* No register or remove call is under way.
NoMutation == [pc |-> "idle", capability_name |-> "", capability |-> None]

\* The registries chat is run against: each is built by register_capability calls.
Registries ==
    LET a == Capability("alpha", "summarize text", "use alpha")
        b == Capability("beta", "solve math", "use beta")
        c == Capability("alpha", "solve math", NoAttr)
    IN  {EmptyRegistry,
         Registered(Registered(EmptyRegistry, a), b),
         Registered(EmptyRegistry, c)}

----------------------------------------------------------------------------
(* ReActAgent.chat *)

UserQuery == "What is 2 + 2?"
ContinuePrompt == "Please continue."
TimedOutText == "The action timed out."
ErrorMessage == "boom"
ErrorText == "An error occurred: " \o ErrorMessage

\* What handler.run may raise: some Exception, or a TimeoutError of its own.
HandlerErrors == {"Exception", "TimeoutError"}

\* The text the except clause that catches e makes of it.
Caught(e) == IF e = "TimeoutError" THEN TimedOutText ELSE ErrorText

\* What handler.run may return: a text, or a falsy value.
HandlerResults == {"HI", ""}

\* The reply holds the continuation marker.
HasMarker(r) == \E n \in DOMAIN r : r[n].k = "marker"

\* The reply yields no action: no form matches, or the matched JSON does not decode.
YieldsNoAction(r) ==
    \A n \in DOMAIN r : \/ r[n].k \in {"text", "marker"}
                        \/ r[n].k \in {"tool", "capability"} /\ r[n].arg = BadJson

\* The reply matches none of the three command forms.
NoForm(r) == \A n \in DOMAIN r : r[n].k \in {"text", "marker"}

NoPrev == [marker |-> FALSE, noact |-> FALSE]

\* What the iteration that is ending did.
Outcome == [marker |-> HasMarker(agent_reply), noact |-> YieldsNoAction(agent_reply)]

\* The iteration ran a handler that came back in time with a non-empty result.
GoodIter == hstate = "returned" /\ result # ""

Capitalize(t) == IF t = "tool" THEN "Tool" ELSE "Capability"

\* A tool collection: a dict keyed by name, or a list of tool objects.
ToolTable(form, names) == [form |-> form, names |-> names]

\* The tools argument of ReActAgent: none or an empty dict, a dict holding the
\* tool named in the replies, a dict holding another tool.
ToolArgs ==
    {ToolTable("dict", {}), ToolTable("dict", {"alpha"}), ToolTable("dict", {"beta"})}

\* ToolMixin.__init__: self.tools = tools or []
ToolMixin(given) == IF given.names = {} THEN ToolTable("list", {}) ELSE given

Init ==
    /\ max_iterations \in 0..MaxIter
    /\ strategy \in {"signal", "timer"}
    /\ tools \in {ToolMixin(given) : given \in ToolArgs}
    /\ \E reg \in Registries : capabilities = reg.caps /\ embeddings = reg.embs
    /\ included_capabilities = {}
    /\ pc = "loop"
    /\ i = 0
    /\ query = UserQuery
    /\ agent_reply = Unbound
    /\ status = 0
    /\ result = ""
    /\ pending = ""
    /\ ret = ""
    /\ alarm = "off"
    /\ timer = "none"
    /\ modelCalls = 0
    /\ handlerExecs = 0
    /\ searches = 0
    /\ modelQuery = ""
    /\ hstate = "none"
    /\ late = FALSE
    /\ execsAtStart = 0
    /\ prev = NoPrev
    /\ allGood = TRUE
    /\ action_details = NoAction
    /\ op = NoCall
    /\ searcher = NoSearch
    /\ mutator = NoMutation

\* range(max_iterations + 1)
InBudgetOffByOne(n, budget) == n <= budget

\* for _ in range(max_iterations): another round is left
InBudget(n, budget) == n < budget

\* for _ in range(max_iterations): agent_reply = super().chat(query), the model
\* answering with one of replies.
ModelCallFrom(replies) ==
    /\ pc = "loop"
    /\ InBudget(i, max_iterations)
    /\ \E reply \in replies : agent_reply' = reply
    /\ modelCalls' = modelCalls + 1
    /\ modelQuery' = query
    /\ execsAtStart' = handlerExecs
    /\ pc' = "react"
    /\ UNCHANGED <<configVars, registryVars, op, raceVars, action_details, included_capabilities, i, query,
                   status, result, pending, ret, watchVars, handlerExecs,
                   searches, hstate, late, prev, allGood>>

ModelCall == ModelCallFrom(Replies)

\* The loop is over, and the last result is returned in place of the last reply.
ExhaustedReturnsResult ==
    /\ pc = "loop"
    /\ ~InBudget(i, max_iterations)
    /\ IF agent_reply = Unbound
       THEN pc' = "raised" /\ ret' = ret
       ELSE pc' = "done" /\ ret' = result
    /\ UNCHANGED <<configVars, registryVars, op, raceVars, action_details, included_capabilities, i, query,
                   agent_reply, status, result, pending, watchVars, modelCalls,
                   handlerExecs, searches, modelQuery, hstate, late,
                   execsAtStart, prev, allGood>>

\* The loop is over: return agent_reply, a name the loop body alone binds.
Exhausted ==
    /\ pc = "loop"
    /\ ~InBudget(i, max_iterations)
    /\ IF agent_reply = Unbound
       THEN pc' = "raised" /\ ret' = ret
       ELSE pc' = "done" /\ ret' = Text(agent_reply)
    /\ UNCHANGED <<configVars, registryVars, op, raceVars, action_details, included_capabilities, i, query,
                   agent_reply, status, result, pending, watchVars, modelCalls,
                   handlerExecs, searches, modelQuery, hstate, late,
                   execsAtStart, prev, allGood>>

\* react: _parse_action found nothing, so 200 and the reasoning itself.
ReactNoAction ==
    /\ pc = "react"
    /\ hstate' = "none"
    /\ late' = FALSE
    /\ _parse_action(agent_reply) = NoAction
    /\ action_details' = NoAction
    /\ status' = 200
    /\ result' = Text(agent_reply)
    /\ pc' = "decide"
    /\ UNCHANGED <<configVars, registryVars, op, raceVars, included_capabilities, i, query,
                   agent_reply, pending, ret, watchVars, modelCalls,
                   handlerExecs, searches, modelQuery,
                   execsAtStart, prev, allGood>>

\* The handler _route_action resolves for a tool or capability request.
Resolved(action) ==
    CASE action.type = "tool" -> tools.form = "dict" /\ action.name \in tools.names
      [] action.type = "capability" -> get_capability(capabilities, action.name) # None
      [] OTHER -> FALSE

\* handler = self.tools.get(action_name): a list has no get, so the lookup raises
\* AttributeError, which nothing in _route_action, react or chat catches.
RouteToolRaises ==
    /\ pc = "react"
    /\ hstate' = "none"
    /\ late' = FALSE
    /\ \E a \in {_parse_action(agent_reply)} :
           /\ a.type = "tool"
           /\ tools.form = "list"
           /\ action_details' = a
    /\ pc' = "raised"
    /\ UNCHANGED <<configVars, registryVars, op, raceVars, included_capabilities, i, query,
                   agent_reply, status, result, pending, ret, watchVars, modelCalls,
                   handlerExecs, searches, modelQuery,
                   execsAtStart, prev, allGood>>

\* _route_action: no handler under that name.
RouteNotFound ==
    /\ pc = "react"
    /\ hstate' = "none"
    /\ late' = FALSE
    /\ \E a \in {_parse_action(agent_reply)} :
           /\ a.type \in {"tool", "capability"}
           /\ a.type = "tool" => tools.form = "dict"
           /\ ~Resolved(a)
           /\ action_details' = a
           /\ status' = 404
           /\ result' = Capitalize(a.type) \o " '" \o a.name \o "' not found."
    /\ pc' = "decide"
    /\ UNCHANGED <<configVars, registryVars, op, raceVars, included_capabilities, i, query,
                   agent_reply, pending, ret, watchVars, modelCalls,
                   handlerExecs, searches, modelQuery,
                   execsAtStart, prev, allGood>>

\* _route_action: a discovery request goes to search_capabilities, with the default top_k.
RouteDiscover ==
    /\ pc = "react"
    /\ _parse_action(agent_reply).type = "capabilities"
    /\ hstate' = "none"
    /\ late' = FALSE
    /\ searches' = searches + 1
    /\ \E action_name \in {_parse_action(agent_reply).name} :
       \E s \in search_capabilities(capabilities, embeddings, included_capabilities,
                                     action_name, DefaultTopK) :
           /\ action_details' = _parse_action(agent_reply)
           /\ included_capabilities' = s.included
           /\ IF s.raises
              THEN pc' = "raised" /\ UNCHANGED <<status, result>>
              ELSE /\ pc' = "decide"
                   /\ status' = 201
                   /\ result' = json_dumps(s.items)
    /\ UNCHANGED <<configVars, registryVars, op, raceVars, i, query, agent_reply, pending, ret,
                   watchVars, modelCalls, handlerExecs, modelQuery,
                   execsAtStart, prev, allGood>>

\* _route_action found a handler; _execute_with_timeout arms its watcher and calls handler.run.
RouteExecute ==
    /\ pc = "react"
    /\ hstate' = "none"
    /\ late' = FALSE
    /\ \E a \in {_parse_action(agent_reply)} : Resolved(a) /\ action_details' = a
    /\ IF strategy = "signal"
       THEN alarm' = "armed" /\ timer' = "none"
       ELSE alarm' = alarm /\ timer' = "armed"
    /\ handlerExecs' = handlerExecs + 1
    /\ pending' = ""
    /\ pc' = "run"
    /\ UNCHANGED <<configVars, registryVars, op, raceVars, included_capabilities, i, query,
                   agent_reply, status, result, ret, modelCalls, searches,
                   modelQuery, execsAtStart, prev, allGood>>

\* handler.run returns.
HandlerReturns ==
    /\ pc = "run"
    /\ \E r \in HandlerResults : pending' = r
    /\ hstate' = "returned"
    /\ pc' = "post"
    /\ UNCHANGED <<configVars, registryVars, op, raceVars, action_details, included_capabilities, i, query,
                   agent_reply, status, result, ret, watchVars, modelCalls,
                   handlerExecs, searches, modelQuery, late, execsAtStart, prev,
                   allGood>>

\* handler.run raises: the except clause for its class makes the text to return.
HandlerRaises ==
    /\ pc = "run"
    /\ \E e \in HandlerErrors : pending' = Caught(e)
    /\ hstate' = "raised"
    /\ pc' = "except"
    /\ UNCHANGED <<configVars, registryVars, op, raceVars, action_details, included_capabilities, i, query,
                   agent_reply, status, result, ret, watchVars, modelCalls,
                   handlerExecs, searches, modelQuery, late, execsAtStart, prev,
                   allGood>>

\* The rest of the try body (the log line) or of the except clause is done.
LeaveBody ==
    /\ pc \in {"post", "except"}
    /\ pc' = "finally"
    /\ UNCHANGED <<configVars, registryVars, op, raceVars, action_details, included_capabilities, i, query,
                   agent_reply, status, result, pending, ret, watchVars,
                   modelCalls, handlerExecs, searches, modelQuery, hstate, late,
                   execsAtStart, prev, allGood>>

\* SIGALRM is delivered: timeout_handler raises TimeoutError in the control thread.
\* Inside the try body it is caught; in the except clause or in the finally
\* clause it leaves _execute_with_timeout and chat.
AlarmFires ==
    /\ alarm = "armed"
    /\ pc \in {"run", "post", "except", "finally"}
    /\ IF pc \in {"run", "post"}
       THEN /\ pending' = TimedOutText
            /\ pc' = "finally"
            /\ alarm' = "fired"
       ELSE /\ pending' = pending
            /\ pc' = "raised"
            /\ alarm' = IF pc = "except" THEN "off" ELSE "fired"
    /\ hstate' = IF pc \in {"run", "post"} THEN "timeout" ELSE hstate
    /\ late' = (pc = "run")
    /\ UNCHANGED <<configVars, registryVars, op, raceVars, action_details, included_capabilities, i, query,
                   agent_reply, status, result, ret, timer, modelCalls,
                   handlerExecs, searches, modelQuery, execsAtStart, prev, allGood>>

\* The Timer thread wakes up: timer_handler prints and raises in that thread alone.
TimerExpires ==
    /\ timer = "armed"
    /\ timer' = "expired"
    /\ late' = (late \/ pc = "run")
    /\ UNCHANGED <<configVars, registryVars, op, raceVars, action_details, included_capabilities, pc, i, query,
                   agent_reply, status, result, pending, ret, alarm, modelCalls,
                   handlerExecs, searches, modelQuery, hstate, execsAtStart, prev,
                   allGood>>

\* _route_action hands back 201 with whatever _execute_with_timeout returned.
Returned ==
    /\ status' = 201
    /\ result' = pending
    /\ pc' = "decide"

\* The watcher is released on the success path alone.
FinallyLeavesWatcher ==
    /\ pc = "finally"
    /\ alarm' = IF strategy = "signal" /\ hstate = "returned" THEN "off" ELSE alarm
    /\ IF strategy = "timer" /\ timer = "armed" /\ hstate = "returned"
       THEN pc' = "cancel" /\ UNCHANGED <<status, result>>
       ELSE Returned
    /\ UNCHANGED <<configVars, registryVars, op, raceVars, action_details, included_capabilities, i, query,
                   agent_reply, pending, ret, timer, modelCalls, handlerExecs,
                   searches, modelQuery, hstate, late, execsAtStart, prev, allGood>>

\* finally: alarm(0), or look whether the timer is alive.
Finally ==
    /\ pc = "finally"
    /\ IF strategy = "signal"
       THEN alarm' = "off" /\ Returned
       ELSE /\ alarm' = alarm
            /\ IF timer = "armed"
               THEN pc' = "cancel" /\ UNCHANGED <<status, result>>
               ELSE Returned
    /\ UNCHANGED <<configVars, registryVars, op, raceVars, action_details, included_capabilities, i, query,
                   agent_reply, pending, ret, timer, modelCalls, handlerExecs,
                   searches, modelQuery, hstate, late, execsAtStart, prev, allGood>>

\* finally: self.timer.cancel()
TimerCancel ==
    /\ pc = "cancel"
    /\ timer' = IF timer = "armed" THEN "cancelled" ELSE timer
    /\ Returned
    /\ UNCHANGED <<configVars, registryVars, op, raceVars, action_details, included_capabilities, i, query,
                   agent_reply, pending, ret, alarm, modelCalls, handlerExecs,
                   searches, modelQuery, hstate, late, execsAtStart, prev, allGood>>

\* The loop body ends without a return: on to the next iteration.
NextIteration ==
    /\ i' = i + 1
    /\ pc' = "loop"
    /\ prev' = Outcome
    /\ allGood' = (allGood /\ GoodIter)
    /\ ret' = ret

\* chat returns text.
Return(text) ==
    /\ ret' = text
    /\ pc' = "done"
    /\ allGood' = (allGood /\ GoodIter)
    /\ UNCHANGED <<i, query, prev>>

\* The marker alone decides: the status is not looked at.
ContinueWhateverStatus ==
    /\ pc = "decide"
    /\ asked_to_continue(agent_reply)
    /\ query' = ContinuePrompt
    /\ NextIteration
    /\ UNCHANGED <<configVars, registryVars, op, raceVars, action_details, included_capabilities, agent_reply,
                   status, result, pending, watchVars, modelCalls, handlerExecs,
                   searches, modelQuery, hstate, late, execsAtStart>>

\* if status != 201 and asked_to_continue: query = "Please continue."; continue
Continue ==
    /\ pc = "decide"
    /\ status # 201 /\ asked_to_continue(agent_reply)
    /\ query' = ContinuePrompt
    /\ NextIteration
    /\ UNCHANGED <<configVars, registryVars, op, raceVars, action_details, included_capabilities, agent_reply,
                   status, result, pending, watchVars, modelCalls, handlerExecs,
                   searches, modelQuery, hstate, late, execsAtStart>>

\* The result is logged but the query is left as it was.
FeedbackKeepsQuery ==
    /\ pc = "decide"
    /\ status = 201 /\ result # ""
    /\ query' = query
    /\ NextIteration
    /\ UNCHANGED <<configVars, registryVars, op, raceVars, action_details, included_capabilities, agent_reply,
                   status, result, pending, watchVars, modelCalls, handlerExecs,
                   searches, modelQuery, hstate, late, execsAtStart>>

\* if status == 201: if result: query = result
Feedback ==
    /\ pc = "decide"
    /\ status = 201 /\ result # ""
    /\ query' = result
    /\ NextIteration
    /\ UNCHANGED <<configVars, registryVars, op, raceVars, action_details, included_capabilities, agent_reply,
                   status, result, pending, watchVars, modelCalls, handlerExecs,
                   searches, modelQuery, hstate, late, execsAtStart>>

\* The reply is returned as it is, without the notice.
ReturnNoResultPlain ==
    /\ pc = "decide"
    /\ status = 201 /\ result = ""
    /\ Return(Text(agent_reply))
    /\ UNCHANGED <<configVars, registryVars, op, raceVars, action_details, included_capabilities, agent_reply,
                   status, result, pending, watchVars, modelCalls, handlerExecs,
                   searches, modelQuery, hstate, late, execsAtStart>>

\* if status == 201: ... else: return f"{agent_reply} + No result from action: {result}."
ReturnNoResult ==
    /\ pc = "decide"
    /\ status = 201 /\ result = ""
    /\ Return(Text(agent_reply) \o " + No result from action: " \o result \o ".")
    /\ UNCHANGED <<configVars, registryVars, op, raceVars, action_details, included_capabilities, agent_reply,
                   status, result, pending, watchVars, modelCalls, handlerExecs,
                   searches, modelQuery, hstate, late, execsAtStart>>

\* elif status == 200: return agent_reply / else: return agent_reply
ReturnReply ==
    /\ pc = "decide"
    /\ status # 201 /\ ~asked_to_continue(agent_reply)
    /\ Return(Text(agent_reply))
    /\ UNCHANGED <<configVars, registryVars, op, raceVars, action_details, included_capabilities, agent_reply,
                   status, result, pending, watchVars, modelCalls, handlerExecs,
                   searches, modelQuery, hstate, late, execsAtStart>>

Next ==
    \/ ModelCall
    \/ Exhausted
    \/ ReactNoAction
    \/ RouteToolRaises
    \/ RouteNotFound
    \/ RouteDiscover
    \/ RouteExecute
    \/ HandlerReturns
    \/ HandlerRaises
    \/ LeaveBody
    \/ AlarmFires
    \/ TimerExpires
    \/ Finally
    \/ TimerCancel
    \/ Continue
    \/ Feedback
    \/ ReturnNoResult
    \/ ReturnReply

Spec == Init /\ [][Next]_vars

\* The control thread keeps running, and a handler returns or raises in the end.
FairSpec == Spec /\ WF_vars(Next)

----------------------------------------------------------------------------
(* One round of chat on texts that hold several commands *)

ParserInit == Init /\ max_iterations = 1

ParserModelCall == ModelCallFrom(ParserTexts)

ParserNext ==
    \/ ParserModelCall
    \/ Exhausted
    \/ ReactNoAction
    \/ RouteToolRaises
    \/ RouteNotFound
    \/ RouteDiscover
    \/ RouteExecute
    \/ Continue
    \/ Feedback
    \/ ReturnReply

ParserSpec == ParserInit /\ [][ParserNext]_vars

----------------------------------------------------------------------------
(* The registry's own interface, called by the application *)

RegNames == {"alpha", "beta", "gamma"}

\* The objects handed to register_capability: with or without a description
\* attribute, with or without an instruction attribute.
Descriptors ==
    {Capability("", "summarize text", "use it"),
     Capability("", "solve math", "use it"),
     Capability("", "solve math", NoAttr),
     Capability("", NoAttr, "use it"),
     Capability("", Unembeddable, "use it")}

SearchQueries == {"math helpers", "anything"}

chatVars == <<max_iterations, strategy, tools, pc, i, query, agent_reply, status,
              result, pending, ret, alarm, timer, modelCalls, handlerExecs,
              searches, modelQuery, hstate, late, execsAtStart, prev, allGood,
              action_details>>

\* A registry just constructed, and an agent that is not chatting.
RegistryInit ==
    /\ Init
    /\ max_iterations = MaxIter /\ strategy = "signal" /\ tools = ToolMixin(ToolTable("dict", {}))
    /\ capabilities = << >>

\* The call, what it raised or returned, and the registry it was made on.
Called(call, capability_name, capability, q, top_k, raised, returned) ==
    op' = [call |-> call, capability_name |-> capability_name,
           capability |-> capability, query |-> q, top_k |-> top_k,
           raised |-> raised, returned |-> returned,
           caps |-> capabilities, embs |-> embeddings,
           included |-> included_capabilities]

\* Only a descriptor without description is refused: a known name is overwritten.
RegisterRefusedNoDuplicateCheck(caps, capability_name, capability) ==
    capability.description = NoAttr

\* The two checks of register_capability that raise ValueError.
RegisterRefused(caps, capability_name, capability) ==
    \/ capability_name \in Keys(caps)
    \/ capability.description = NoAttr

register_capability ==
    \E capability_name \in RegNames, capability \in Descriptors :
        \E refused \in {RegisterRefused(capabilities, capability_name, capability)} :
            /\ Called("register", capability_name, capability, "", 0,
                      refused \/ EmbeddingRaises(capability.description), << >>)
            /\ IF refused
               THEN UNCHANGED registryVars
               ELSE IF EmbeddingRaises(capability.description)
               THEN \* line 39 has stored the descriptor when line 40 raises
                    /\ capabilities' = Put(capabilities,
                                           [capability EXCEPT !.name = capability_name])
                    /\ embeddings' = embeddings
               ELSE \E reg \in {Registered([caps |-> capabilities, embs |-> embeddings],
                                            [capability EXCEPT !.name = capability_name])} :
                        capabilities' = reg.caps /\ embeddings' = reg.embs
            /\ UNCHANGED <<included_capabilities, chatVars, raceVars>>

\* get_capability, called from outside.
GetCall ==
    \E capability_name \in RegNames :
        /\ Called("get", capability_name, None, "", 0, FALSE,
                  IF capability_name \in Keys(capabilities)
                  THEN <<get_capability(capabilities, capability_name)>> ELSE << >>)
        /\ UNCHANGED <<registryVars, included_capabilities, chatVars, raceVars>>

list_capabilities ==
    /\ Called("list", "", None, "", 0, FALSE,
              [n \in DOMAIN capabilities |-> capabilities[n].name])
    /\ UNCHANGED <<registryVars, included_capabilities, chatVars, raceVars>>

\* The removed name is taken out of the discovery set as well.
remove_capability_forgets ==
    \E capability_name \in RegNames :
        \E absent \in {capability_name \notin Keys(capabilities)} :
            /\ Called("remove", capability_name, None, "", 0,
                      absent \/ capability_name \notin Keys(embeddings), << >>)
            /\ IF absent
               THEN UNCHANGED <<registryVars, included_capabilities>>
               ELSE /\ capabilities' = Del(capabilities, capability_name)
                    /\ embeddings' = Del(embeddings, capability_name)
                    /\ included_capabilities' = included_capabilities \ {capability_name}
            /\ UNCHANGED <<chatVars, raceVars>>

remove_capability ==
    \E capability_name \in RegNames :
        \E absent \in {capability_name \notin Keys(capabilities)} :
            /\ Called("remove", capability_name, None, "", 0,
                      absent \/ capability_name \notin Keys(embeddings), << >>)
            /\ IF absent
               THEN UNCHANGED registryVars
               ELSE \* line 68, and then line 69, a KeyError when no embedding is stored
                    /\ capabilities' = Del(capabilities, capability_name)
                    /\ embeddings' = Del(embeddings, capability_name)
            /\ UNCHANGED <<included_capabilities, chatVars, raceVars>>

\* search_capabilities, called from outside with a top_k of its own.
SearchCall ==
    \E q \in SearchQueries, top_k \in 0..MaxTopK :
        \E s \in search_capabilities(capabilities, embeddings,
                                      included_capabilities, q, top_k) :
            /\ Called("search", "", None, q, top_k, s.raises, s.items)
            /\ included_capabilities' = s.included
            /\ UNCHANGED <<registryVars, chatVars, raceVars>>

reset_context ==
    /\ Called("reset_context", "", None, "", 0, FALSE, << >>)
    /\ included_capabilities' = {}
    /\ UNCHANGED <<registryVars, chatVars, raceVars>>

RegistryNext ==
    \/ register_capability
    \/ GetCall
    \/ list_capabilities
    \/ remove_capability
    \/ SearchCall
    \/ reset_context

RegistrySpec == RegistryInit /\ [][RegistryNext]_vars

----------------------------------------------------------------------------
(* Two threads on one registry: search_capabilities against register_capability *)
(* and remove_capability, one statement at a time.  The registry takes no lock. *)

RaceNames == {"alpha", "beta"}

RaceDescriptors ==
    {Capability("", "summarize text", "use it"),
     Capability("", "solve math", "use it"),
     Capability("", Unembeddable, "use it")}

RaceQuery == "math helpers"

RaceInit ==
    /\ Init
    /\ max_iterations = MaxIter /\ strategy = "signal" /\ tools = ToolMixin(ToolTable("dict", {}))
    /\ capabilities = << >>

\* The searching thread is between its first and its last statement.
InSearch == searcher.pc \in {"L80", "L81", "L84", "L88", "L90"}

RegisterUnderWay == mutator.pc \in {"L39", "L40"}
RemoveUnderWay == mutator.pc \in {"L68", "L69"}

\* A statement of the mutating thread runs: the search under way, if any, has
\* a register or a remove call interleaved with it.
Interleaved(kind) ==
    searcher' = IF InSearch
                THEN [searcher EXCEPT !.regDuring = @ \/ kind = "register",
                                      !.remDuring = @ \/ kind = "remove"]
                ELSE searcher

\* line 79: query_embedding = self.embedding_model(query)
SearchBegins ==
    /\ ~InSearch
    /\ searcher' = [NoSearch EXCEPT !.pc = "L80",
                                     !.regDuring = RegisterUnderWay,
                                     !.remDuring = RemoveUnderWay]
    /\ UNCHANGED <<chatVars, registryVars, included_capabilities, op, mutator>>

\* line 80: capability_names = list(self.embeddings.keys())
SearchListsNames ==
    /\ searcher.pc = "L80"
    /\ searcher' = [searcher EXCEPT !.pc = "L81",
                                     !.names = [n \in DOMAIN embeddings |-> embeddings[n].name]]
    /\ UNCHANGED <<chatVars, registryVars, included_capabilities, op, mutator>>

\* line 81: [self.embeddings[name] for name in capability_names], a KeyError
\* when a listed name has no embedding any more
SearchReadsEmbeddings ==
    /\ searcher.pc = "L81"
    /\ searcher' =
           IF \E n \in DOMAIN searcher.names : searcher.names[n] \notin Keys(embeddings)
           THEN [searcher EXCEPT !.pc = "raised", !.broken = TRUE]
           ELSE [searcher EXCEPT !.pc = "L84",
                                 !.embs = [n \in DOMAIN searcher.names |->
                                              Lookup(embeddings, searcher.names[n])]]
    /\ UNCHANGED <<chatVars, registryVars, included_capabilities, op, mutator>>

\* lines 84-85: cosine_similarity, which rejects the empty array, and argsort
SearchRanks ==
    /\ searcher.pc = "L84"
    /\ IF searcher.embs = << >>
       THEN searcher' = [searcher EXCEPT !.pc = "raised"]
       ELSE \E ranked \in ranked_indices(searcher.embs, embedding_model(RaceQuery),
                                          DefaultTopK) :
                searcher' = [searcher EXCEPT !.pc = "L88", !.ranked = ranked]
    /\ UNCHANGED <<chatVars, registryVars, included_capabilities, op, mutator>>

\* line 88: self.included_capabilities.update(...)
SearchMarks ==
    /\ searcher.pc = "L88"
    /\ included_capabilities' =
           included_capabilities
           \cup {searcher.names[searcher.ranked[p]] : p \in DOMAIN searcher.ranked}
    /\ searcher' = [searcher EXCEPT !.pc = "L90", !.at = 1]
    /\ UNCHANGED <<chatVars, registryVars, op, mutator>>

\* The embedding the search ranked the name by is not the embedding of the
\* descriptor the registry now holds under that name.
Mispaired(vec, descriptor) ==
    \/ EmbeddingRaises(descriptor.description)
    \/ embedding_model(descriptor.description) # vec

\* lines 90-98, one ranked name at a time: self.capabilities[name] is a KeyError
\* when the descriptor is gone, .instruction an AttributeError when it has none
SearchBuildsItem ==
    /\ searcher.pc = "L90"
    /\ searcher' =
           IF searcher.at > Len(searcher.ranked)
           THEN [searcher EXCEPT !.pc = "done"]
           ELSE LET entry == searcher.embs[searcher.ranked[searcher.at]]
                IN  IF entry.name \notin Keys(capabilities)
                    THEN [searcher EXCEPT !.pc = "raised", !.broken = TRUE]
                    ELSE IF Lookup(capabilities, entry.name).instruction = NoAttr
                    THEN [searcher EXCEPT !.pc = "raised"]
                    ELSE [searcher EXCEPT
                             !.at = @ + 1,
                             !.broken = @ \/ Mispaired(entry.vec,
                                                        Lookup(capabilities, entry.name))]
    /\ UNCHANGED <<chatVars, registryVars, included_capabilities, op, mutator>>

\* lines 34-37: the two checks of register_capability; a refused call raises
RegisterChecks ==
    /\ mutator.pc = "idle"
    /\ \E capability_name \in RaceNames, capability \in RaceDescriptors :
           mutator' = IF RegisterRefused(capabilities, capability_name, capability)
                      THEN mutator
                      ELSE [pc |-> "L39", capability_name |-> capability_name,
                            capability |-> capability]
    /\ Interleaved("register")
    /\ UNCHANGED <<chatVars, registryVars, included_capabilities, op>>

\* The embedding is stored where the descriptor is due.
RegisterStoresEmbeddingFirst ==
    /\ mutator.pc = "L39"
    /\ embeddings' =
           IF EmbeddingRaises(mutator.capability.description)
           THEN embeddings
           ELSE Put(embeddings, [name |-> mutator.capability_name,
                                 vec |-> embedding_model(mutator.capability.description)])
    /\ mutator' = [mutator EXCEPT !.pc = "L40"]
    /\ Interleaved("register")
    /\ UNCHANGED <<chatVars, capabilities, included_capabilities, op>>

\* line 39: self.capabilities[capability_name] = capability
RegisterStoresDescriptor ==
    /\ mutator.pc = "L39"
    /\ capabilities' = Put(capabilities, Stored(mutator.capability_name, mutator.capability))
    /\ mutator' = [mutator EXCEPT !.pc = "L40"]
    /\ Interleaved("register")
    /\ UNCHANGED <<chatVars, embeddings, included_capabilities, op>>

\* line 40: self.embeddings[capability_name] = self.embedding_model(...), which may raise
RegisterStoresEmbedding ==
    /\ mutator.pc = "L40"
    /\ embeddings' =
           IF EmbeddingRaises(mutator.capability.description)
           THEN embeddings
           ELSE Put(embeddings, [name |-> mutator.capability_name,
                                 vec |-> embedding_model(mutator.capability.description)])
    /\ mutator' = NoMutation
    /\ Interleaved("register")
    /\ UNCHANGED <<chatVars, capabilities, included_capabilities, op>>

\* lines 66-67: the check of remove_capability; an absent name raises
RemoveChecks ==
    /\ mutator.pc = "idle"
    /\ \E capability_name \in RaceNames :
           mutator' = IF capability_name \notin Keys(capabilities)
                      THEN mutator
                      ELSE [pc |-> "L68", capability_name |-> capability_name,
                            capability |-> None]
    /\ Interleaved("remove")
    /\ UNCHANGED <<chatVars, registryVars, included_capabilities, op>>

\* line 68: del self.capabilities[capability_name]
RemoveDeletesDescriptor ==
    /\ mutator.pc = "L68"
    /\ capabilities' = Del(capabilities, mutator.capability_name)
    /\ mutator' = [mutator EXCEPT !.pc = "L69"]
    /\ Interleaved("remove")
    /\ UNCHANGED <<chatVars, embeddings, included_capabilities, op>>

\* line 69: del self.embeddings[capability_name], a KeyError when there is none
RemoveDeletesEmbedding ==
    /\ mutator.pc = "L69"
    /\ embeddings' = Del(embeddings, mutator.capability_name)
    /\ mutator' = NoMutation
    /\ Interleaved("remove")
    /\ UNCHANGED <<chatVars, capabilities, included_capabilities, op>>

RaceNext ==
    \/ SearchBegins
    \/ SearchListsNames
    \/ SearchReadsEmbeddings
    \/ SearchRanks
    \/ SearchMarks
    \/ SearchBuildsItem
    \/ RegisterChecks
    \/ RegisterStoresDescriptor
    \/ RegisterStoresEmbedding
    \/ RemoveChecks
    \/ RemoveDeletesDescriptor
    \/ RemoveDeletesEmbedding

RaceSpec == RaceInit /\ [][RaceNext]_vars

----------------------------------------------------------------------------
(* Properties of chat *)

Terminated == pc \in {"done", "raised"}

InExecutor == pc \in {"run", "post", "except", "finally", "cancel"}

\* C1: with a budget of at least one and every reply an action whose handler comes
\* back with a non-empty result, chat makes exactly max_iterations model calls and
\* handler runs, never one more, and returns the text of the last reply.
C1_ExactlyBudgetIterations ==
    /\ (allGood /\ max_iterations >= 1) =>
           (modelCalls <= max_iterations /\ handlerExecs <= max_iterations)
    /\ (pc = "done" /\ allGood /\ max_iterations >= 1) =>
           /\ modelCalls = max_iterations
           /\ handlerExecs = max_iterations
           /\ ret = Text(agent_reply)

C1_Witness ==
    /\ pc = "done" /\ allGood
    /\ max_iterations = MaxIter
    /\ modelCalls = MaxIter /\ handlerExecs = MaxIter
    /\ ret = Text(agent_reply)

\* C2: when the first reply matches no command form and has no marker, chat returns
\* that text after one model call, with status 200, no search and no handler run.
C2_PlainReplyReturned ==
    (modelCalls = 1 /\ pc # "react" /\ NoForm(agent_reply) /\ ~HasMarker(agent_reply)) =>
        /\ pc \in {"decide", "done"}
        /\ status = 200
        /\ searches = 0
        /\ handlerExecs = 0
        /\ pc = "done" => ret = Text(agent_reply)

C2_Witness ==
    /\ pc = "done" /\ modelCalls = 1 /\ max_iterations >= 2
    /\ NoForm(agent_reply) /\ ~HasMarker(agent_reply)
    /\ status = 200
    /\ ret = "I am done."

\* C3: after an iteration routed with 201 and a non-empty result, while budget is
\* left, the next model call gets exactly that result as its query, and the
\* iteration cost exactly one round of the budget.
C3_ResultFedBack ==
    /\ (pc = "loop" /\ i >= 1 /\ status = 201 /\ result # "") =>
           (query = result /\ modelCalls = i)
    /\ (pc = "react" /\ modelCalls >= 2 /\ status = 201 /\ result # "") =>
           (modelQuery = result /\ modelCalls = i + 1)
    /\ (pc = "done" /\ i < max_iterations) => ~(status = 201 /\ result # "")

C3_Witness ==
    /\ pc = "react" /\ modelCalls = 2 /\ i = 1
    /\ status = 201 /\ result = "HI"
    /\ modelQuery = "HI"

\* C4 (as claimed): a reply that names an unresolved tool or capability (404) ends
\* chat in that iteration with the reply's text, marker or not: no round follows it.
C4_NotFoundTerminates ==
    /\ (pc = "react" /\ modelCalls >= 2) => status # 404
    /\ (pc = "done" /\ status = 404) => ret = Text(agent_reply)

\* C5 (as claimed): when the handler raises or times out, chat ends in that
\* iteration: the error text is never the next query and no model call follows.
C5_HandlerErrorTerminates ==
    /\ (pc = "react" /\ modelCalls >= 2) =>
           (hstate \notin {"raised", "timeout"} /\ modelQuery \notin {ErrorText, TimedOutText})
    /\ (pc = "done" /\ hstate \in {"raised", "timeout"}) => ret = Text(agent_reply)

\* C6 (as claimed): routing a tool or capability request gives 201 only when the
\* handler ran to completion without error; a handler error or an expired
\* deadline gives a 500-class status.
C6_StatusTaxonomy ==
    (pc = "decide" /\ _parse_action(agent_reply).type \in {"tool", "capability"}) =>
        /\ status = 201 => (hstate = "returned" /\ ~late)
        /\ (hstate \in {"raised", "timeout"} \/ late) => status >= 500
        /\ status \in {201, 404} \/ status >= 500

\* C7 (as claimed): chat never raises to its caller.
C7_ChatNeverRaises == pc # "raised"

\* C8: a reply that yields no action but holds the marker runs no handler, costs
\* exactly one round, and makes "Please continue." the query of the next model call.
C8_ContinuationPrompt ==
    /\ (pc = "decide" /\ YieldsNoAction(agent_reply) /\ HasMarker(agent_reply)) =>
           (status = 200 /\ handlerExecs = execsAtStart)
    /\ (pc = "loop" /\ i >= 1 /\ prev.noact /\ prev.marker) =>
           (query = ContinuePrompt /\ handlerExecs = execsAtStart /\ modelCalls = i)
    /\ (pc = "react" /\ modelCalls >= 2 /\ prev.noact /\ prev.marker) =>
           (modelQuery = ContinuePrompt /\ modelCalls = i + 1)
    /\ (Terminated /\ modelCalls >= 1 /\ i < max_iterations) =>
           ~(YieldsNoAction(agent_reply) /\ HasMarker(agent_reply))

C8_Witness ==
    /\ pc = "react" /\ modelCalls = 2 /\ i = 1
    /\ prev.noact /\ prev.marker
    /\ modelQuery = ContinuePrompt
    /\ handlerExecs = 0

\* C9: whatever mix of action and continuation replies, chat comes to an end, the
\* model calls never exceed max_iterations and the handler runs never exceed the
\* model calls.
C9_BoundedAndTerminates ==
    /\ [](modelCalls <= max_iterations /\ handlerExecs <= modelCalls)
    /\ <>Terminated

C9_Witness ==
    /\ pc = "done" /\ max_iterations = MaxIter /\ modelCalls = MaxIter
    /\ handlerExecs >= 1 /\ handlerExecs < modelCalls
    /\ prev.noact /\ prev.marker

\* C10: once _execute_with_timeout has returned or raised, no watcher it armed is
\* pending, in the alarm strategy and in the timer strategy alike.
C10_WatcherReleased ==
    ~InExecutor => (alarm # "armed" /\ timer # "armed")

C10_Witness ==
    /\ pc = "decide" /\ hstate = "raised"
    /\ strategy = "timer" /\ timer = "cancelled"

----------------------------------------------------------------------------
(* Properties of _execute_with_timeout *)

\* An exception left _execute_with_timeout after it had called the handler.
ExecutorRaised == pc = "raised" /\ handlerExecs > execsAtStart

\* C11 (as claimed): in the alarm strategy the timeout never leaves the executor:
\* wherever the alarm fires between arming and disarming, the executor returns,
\* and what it returns after the alarm fired is "The action timed out.".
C11_TimeoutNeverEscapes ==
    strategy = "signal" =>
        /\ ~ExecutorRaised
        /\ (pc = "decide" /\ hstate = "timeout") => result = TimedOutText

\* C12 (as claimed): in the timer strategy, when the timer expires before the
\* handler returns, the executor's result is the timeout text and not the
\* handler's output.
C12_TimerTimeoutReported ==
    (strategy = "timer" /\ pc = "decide" /\ late) => result = TimedOutText

\* C13 (as claimed): no error raised by a handler escapes the executor: it returns
\* a text holding the original message, with the watcher released.
C13_HandlerErrorWrapped ==
    hstate = "raised" =>
        /\ ~ExecutorRaised
        /\ pc = "decide" =>
               (result = ErrorText /\ alarm # "armed" /\ timer # "armed")

----------------------------------------------------------------------------
(* Properties of _parse_action *)

\* react has parsed the reply of this round.
Parsed == modelCalls = 1 /\ pc # "react"

HasForm(r, k) == \E n \in DOMAIN r : r[n].k = k

\* The match re.search reports for form k: the first one in the text.
FirstOf(r, k) ==
    r[CHOOSE n \in DOMAIN r : r[n].k = k /\ \A m \in 1..(n - 1) : r[m].k # k]

\* The matched command is well formed: its braces hold a JSON object.
WellFormed(seg) == seg.k = "request" \/ seg.arg = GoodJson

Priority == <<"tool", "capability", "request">>

\* Form Priority[p] is matched and no form of higher priority is.
Highest(r, p) ==
    HasForm(r, Priority[p]) /\ \A q \in 1..(p - 1) : ~HasForm(r, Priority[q])

RequestType(k) == IF k = "request" THEN "capabilities" ELSE k

\* C14: the parser takes the forms in the priority tool, capability, discovery,
\* wherever they stand in the text: with well-formed matches the one request it
\* returns is that of the highest-priority form matched, and of no other.
C14_ParserPriority ==
    Parsed =>
        \A p \in DOMAIN Priority :
            (Highest(agent_reply, p) /\ WellFormed(FirstOf(agent_reply, Priority[p]))) =>
                /\ action_details.type = RequestType(Priority[p])
                /\ p <= 2 =>
                       /\ action_details.name = FirstOf(agent_reply, Priority[p]).name
                       /\ action_details.arguments = FirstOf(agent_reply, Priority[p]).arg

C14_Witness ==
    /\ Parsed
    /\ Len(agent_reply) = 3
    /\ agent_reply[1].k = "request"
    /\ agent_reply[2].k = "capability" /\ WellFormed(agent_reply[2])
    /\ agent_reply[3].k = "tool" /\ WellFormed(agent_reply[3])
    /\ action_details.type = "tool"

\* C15: when the JSON of the highest-priority matched command does not decode,
\* the parser returns no action and nothing is raised, also when a well-formed
\* command of lower priority stands in the same text; the round has status 200,
\* runs no handler and no search.
C15_BadJsonNoAction ==
    (Parsed /\ \E p \in 1..2 : /\ Highest(agent_reply, p)
                               /\ ~WellFormed(FirstOf(agent_reply, Priority[p]))) =>
        /\ action_details = NoAction
        /\ pc \in {"decide", "loop", "done"}
        /\ status = 200
        /\ result = Text(agent_reply)
        /\ handlerExecs = 0 /\ searches = 0
        /\ pc = "done" => ret = Text(agent_reply)

C15_Witness ==
    /\ Parsed /\ pc = "done"
    /\ Len(agent_reply) = 3
    /\ agent_reply[1].k = "request"
    /\ agent_reply[2].k = "tool" /\ ~WellFormed(agent_reply[2])
    /\ agent_reply[3].k = "capability" /\ WellFormed(agent_reply[3])
    /\ action_details = NoAction /\ status = 200
    /\ ret = Text(agent_reply)

----------------------------------------------------------------------------
(* Properties of CapabilityRegistry *)

\* The call left both tables and the discovery set as it found them.
RegistryUntouched ==
    /\ capabilities = op.caps
    /\ embeddings = op.embs
    /\ included_capabilities = op.included

\* C16: register fails when the name is registered already or the descriptor has
\* no description, and a register that failed left the descriptor table, the
\* embedding table and the discovery set as they were: the descriptor first
\* registered under the name is still the one kept.
C16_RegisterFailure ==
    op.call = "register" =>
        /\ (op.capability_name \in Keys(op.caps) \/ op.capability.description = NoAttr)
               => op.raised
        /\ op.raised => RegistryUntouched
        /\ (op.raised /\ op.capability_name \in Keys(op.caps)) =>
               /\ Lookup(capabilities, op.capability_name)
                      = Lookup(op.caps, op.capability_name)
               /\ Lookup(embeddings, op.capability_name)
                      = Lookup(op.embs, op.capability_name)


\* C17: remove of a name that is not registered fails and changes nothing; remove
\* of a registered name deletes the descriptor and the embedding of that name and
\* of no other: every other name keeps its descriptor and its embedding.
C17_RemoveExactlyOne ==
    op.call = "remove" =>
        IF op.capability_name \notin Keys(op.caps)
        THEN op.raised /\ RegistryUntouched
        ELSE /\ ~op.raised
             /\ Keys(capabilities) = Keys(op.caps) \ {op.capability_name}
             /\ Keys(embeddings) = Keys(op.embs) \ {op.capability_name}
             /\ Len(capabilities) = Len(op.caps) - 1
             /\ Len(embeddings) = Len(op.embs) - 1
             /\ \A other \in Keys(capabilities) :
                    /\ Lookup(capabilities, other) = Lookup(op.caps, other)
                    /\ Lookup(embeddings, other) = Lookup(op.embs, other)


\* The embedding the searched registry held under a name.
VecOf(name) == Lookup(op.embs, name).vec

\* The place a name had in the searched registry: its registration order.
PlaceOf(name) == CHOOSE n \in DOMAIN op.embs : op.embs[n].name = name

\* Name a is strictly less similar to the query of the search than name b.
LessSimilar(a, b) == CosLess(VecOf(a), VecOf(b), embedding_model(op.query))

SameSimilarity(a, b) == ~LessSimilar(a, b) /\ ~LessSimilar(b, a)

ReturnedNames == {op.returned[p].name : p \in DOMAIN op.returned}

\* C18 (as claimed): on every registry and for every top_k >= 0, search returns
\* min(top_k, number registered) distinct registered names by non-increasing
\* similarity, omits none that is strictly more similar than one it returns, and
\* leaves every returned name in the discovery set.
C18_SearchReturnsTopK ==
    op.call = "search" =>
        /\ ~op.raised
        /\ Len(op.returned) = Min(op.top_k, Len(op.caps))
        /\ Cardinality(ReturnedNames) = Len(op.returned)
        /\ ReturnedNames \subseteq Keys(op.caps)
        /\ \A p, q \in DOMAIN op.returned :
               p < q => ~LessSimilar(op.returned[p].name, op.returned[q].name)
        /\ \A omitted \in Keys(op.embs) \ ReturnedNames :
               \A r \in ReturnedNames : ~LessSimilar(r, omitted)
        /\ ReturnedNames \subseteq included_capabilities

\* C19 (as claimed): among capabilities of equal similarity to the query, search
\* lists the earlier registered first, and when top_k cuts through a tie the
\* earlier registered are the ones returned.
C19_TiesByRegistrationOrder ==
    (op.call = "search" /\ ~op.raised) =>
        /\ \A p, q \in DOMAIN op.returned :
               (p < q /\ SameSimilarity(op.returned[p].name, op.returned[q].name)) =>
                   PlaceOf(op.returned[p].name) < PlaceOf(op.returned[q].name)
        /\ \A omitted \in Keys(op.embs) \ ReturnedNames :
               \A r \in ReturnedNames :
                   SameSimilarity(r, omitted) => PlaceOf(r) < PlaceOf(omitted)

\* C20: register, get, list, remove and search never take a name out of the
\* discovery set; reset_context empties it and leaves both tables as they were.
C20_DiscoveryOnlyGrows ==
    /\ op.call \in {"register", "get", "list", "remove", "search"} =>
           op.included \subseteq included_capabilities
    /\ op.call = "reset_context" =>
           /\ included_capabilities = {}
           /\ capabilities = op.caps
           /\ embeddings = op.embs

C20_Witness ==
    /\ op.call = "remove" /\ ~op.raised
    /\ op.capability_name \in included_capabilities
    /\ op.capability_name \notin Keys(capabilities)
    /\ Cardinality(included_capabilities) = 2

\* C21: a stored embedding is written by the register call that creates its name
\* and by no other call: every name that had an embedding keeps the same one
\* unless this very call removed the name, a new embedding appears only through
\* a register of its name that succeeded, and no name is a key twice.
C21_EmbeddingWrittenOnce ==
    /\ \A n \in Keys(op.embs) :
           \/ op.call = "remove" /\ op.capability_name = n
           \/ n \in Keys(embeddings) /\ Lookup(embeddings, n) = Lookup(op.embs, n)
    /\ \A n \in Keys(embeddings) \ Keys(op.embs) :
           /\ op.call = "register" /\ op.capability_name = n /\ ~op.raised
           /\ Lookup(embeddings, n).vec = embedding_model(op.capability.description)
    /\ Cardinality(Keys(embeddings)) = Len(embeddings)
    /\ Cardinality(Keys(capabilities)) = Len(capabilities)

C21_Witness ==
    /\ op.call = "register" /\ op.raised
    /\ op.capability_name \in Keys(op.embs)
    /\ op.capability.description = "summarize text"
    /\ Lookup(embeddings, op.capability_name).vec = embedding_model("solve math")
    /\ Len(embeddings) = 2

\* C25 (as claimed): whatever calls were made, failed register calls included,
\* the descriptor table and the embedding table hold the same names.
C25_TablesHoldSameNames == Keys(capabilities) = Keys(embeddings)

\* C28: after a successful register(n, d), get(n) is d and list holds n, and they
\* stay so through every call but remove(n); after remove(n), get(n) is none and
\* no embedding is left for search to rank; search returns registered names only;
\* a register of a name that is not registered, with a description that can be
\* embedded, succeeds and makes get(n) the new descriptor.
C28_RoundTrip ==
    /\ (op.call = "register" /\ ~op.raised) =>
           /\ get_capability(capabilities, op.capability_name)
                  = Stored(op.capability_name, op.capability)
           /\ op.capability_name \in Keys(capabilities)
    /\ \A n \in Keys(op.caps) :
           \/ op.call = "remove" /\ op.capability_name = n
           \/ get_capability(capabilities, n) = get_capability(op.caps, n)
    /\ (op.call = "remove" /\ op.capability_name \in Keys(op.caps)) =>
           /\ get_capability(capabilities, op.capability_name) = None
           /\ op.capability_name \notin Keys(embeddings)
    /\ op.call = "search" => ReturnedNames \subseteq Keys(capabilities)
    /\ op.call = "get" =>
           op.returned = IF op.capability_name \in Keys(capabilities)
                         THEN <<Lookup(capabilities, op.capability_name)>> ELSE << >>
    /\ op.call = "list" =>
           {op.returned[p] : p \in DOMAIN op.returned} = Keys(capabilities)
    /\ (/\ op.call = "register"
        /\ op.capability_name \notin Keys(op.caps)
        /\ op.capability.description \notin {NoAttr, Unembeddable}) => ~op.raised

\* A name that was registered, returned by a search and removed is registered anew.
C28_Witness ==
    /\ op.call = "register" /\ ~op.raised
    /\ op.capability_name \in op.included
    /\ op.capability_name \notin Keys(op.caps)
    /\ get_capability(capabilities, op.capability_name)
           = Capability(op.capability_name, "solve math", "use it")

----------------------------------------------------------------------------
(* Properties of _route_action and of chat's handling of what it returns *)

\* The iteration under way has routed the request of its reply.
Routed == modelCalls >= 1 /\ pc \notin {"react", "loop", "done"}

\* The name of the request is a key of the table its type is looked up in.
Present(a) ==
    IF a.type = "tool" THEN a.name \in tools.names ELSE a.name \in Keys(capabilities)

NotFoundText(a) == Capitalize(a.type) \o " '" \o a.name \o "' not found."

\* What search_capabilities may return for the request, serialized.
SerializedSearch(q) ==
    {json_dumps(s.items) :
        s \in {t \in search_capabilities(capabilities, embeddings, {}, q, DefaultTopK) :
                  ~t.raises}}

\* C22 (as claimed): routing a capability-discovery request runs no handler and
\* arms no watcher: it makes one search with the request's text and returns 201
\* with the serialized list of what the search found.
C22_DiscoveryBypassesExecutor ==
    (Routed /\ _parse_action(agent_reply).type = "capabilities") =>
        /\ handlerExecs = execsAtStart
        /\ alarm # "armed" /\ timer # "armed"
        /\ pc = "decide"
        /\ status = 201
        /\ result \in SerializedSearch(_parse_action(agent_reply).name)

\* C23 (as claimed): a tool or capability request whose name is not in its table
\* comes back 404 with the not-found message and no handler run; a request whose
\* name is in its table is handed to the executor.
C23_NotFoundOrDelegated ==
    \A a \in {_parse_action(agent_reply)} :
        (Routed /\ a.type \in {"tool", "capability"}) =>
            IF Present(a)
            THEN handlerExecs = execsAtStart + 1
            ELSE /\ pc = "decide"
                 /\ status = 404
                 /\ result = NotFoundText(a)
                 /\ handlerExecs = execsAtStart

\* The text chat returns when a routed action brought no result.
NoResultNotice(reply) == Text(reply) \o " + No result from action: ."

\* C26: an iteration whose action came back 201 with an empty result ends chat
\* there: no round and no model call follows it, and chat returns the reply's
\* text with the no-result notice appended, which is not the reply's text.
C26_EmptyResultEnds ==
    /\ [](pc \in {"loop", "react"} => ~(status = 201 /\ result = ""))
    /\ []((pc = "done" /\ status = 201 /\ result = "") =>
              /\ ret = NoResultNotice(agent_reply)
              /\ ret # Text(agent_reply)
              /\ modelCalls = i + 1)
    /\ ((pc = "decide" /\ status = 201 /\ result = "") ~> pc = "done")

C26_Witness ==
    /\ pc = "done" /\ status = 201 /\ result = "" /\ hstate = "returned"
    /\ max_iterations = MaxIter /\ modelCalls = 2
    /\ ret = "use tool:alpha|run|{\"q\": \"a\"}[CAN I CONTINUE?] + No result from action: ."

\* C27: the marker counts only when the status is not 201: after a reply with the
\* marker whose action was routed with 201, the next query is the action's result
\* and not "Please continue.", and a reply runs at most one handler or search.
C27_MarkerIgnoredOnSuccess ==
    /\ (pc = "loop" /\ i >= 1 /\ prev.marker /\ status = 201) =>
           (query = result /\ query # ContinuePrompt)
    /\ (pc = "react" /\ modelCalls >= 2 /\ prev.marker /\ status = 201) =>
           (modelQuery = result /\ modelQuery # ContinuePrompt)
    /\ (pc \in {"loop", "react"} /\ modelCalls >= 1 /\ query = ContinuePrompt) =>
           (prev.marker /\ status # 201)
    /\ handlerExecs <= execsAtStart + 1
    /\ handlerExecs + searches <= modelCalls

C27_Witness ==
    /\ pc = "react" /\ modelCalls = 2 /\ i = 1
    /\ prev.marker /\ status = 201
    /\ modelQuery = "HI" /\ handlerExecs = 1

----------------------------------------------------------------------------
(* Properties of the unsynchronized registry *)

====
